----------------------------- MODULE Spec2Model -----------------------------
(***************************************************************************)
(* Model of pulp_puppet/forge/releases.py: the "releases.json" view, the   *)
(* opening of the per-repository gdbm dependency databases and the two     *)
(* resolvers find_version and find_newest.                                 *)
(*                                                                         *)
(* A gdbm handle is an entry of the heap `handles`.  A handle is closed    *)
(* only by an explicit close() call of the code; what a runtime's garbage  *)
(* collector may do to an unreferenced handle is not part of the model.    *)
(* The publish protocol and the request host are passed through to the     *)
(* Unit constructor and decide nothing here; they are left out.            *)
(***************************************************************************)
EXTENDS Integers, Sequences, FiniteSets, TLC

\* ------------------------------------------------------------- bounds
NumRepos == 2
MaxVersion == 2
MaxDist == 2

\* ---------------------------------------------------------- constants
\* constants.FORGE_NULL_AUTH_VALUE: the "absent" consumer / repository id
FORGE_NULL_AUTH_VALUE == 0
\* version=None, the default of view's parameter; falsy in "if version:"
NoVersion == 0

DISTRIBUTOR_TYPE_ID == "puppet_distributor"
DistributorIds == {DISTRIBUTOR_TYPE_ID, "other_distributor"}

\* view calls in flight: one under Spec, two interleaved under SpecConc
Queries == {1, 2}
Repos == 1..NumRepos
ConsumerIds == {FORGE_NULL_AUTH_VALUE, 1}
RepoIdArgs == {FORGE_NULL_AUTH_VALUE} \cup Repos
Versions == 1..MaxVersion
VersionArgs == {NoVersion} \cup Versions
ModuleNames == {"author/title"}

\* Python's None where a Unit is expected (ret = None, "if not unit")
None == [repo_id |-> 0, version |-> 0, db |-> 0]
Truthy(u) == u # None

EmptyMap == [r \in {} |-> 0]
SeqsUpTo(S, n) == UNION {[1..k -> S] : k \in 0..n}

VARIABLES
    pc,            \* per query: position in view / find_version / find_newest
    consumer_id,   \* view's arguments
    repo_id,
    module_name,
    version,
    repo_ids,      \* view: the repositories to search
    bindings,      \* what BindManager().find_by_consumer returned
    bind_calls,    \* history: number of calls of get_bound_repos
    built,         \* history: number of calls of unit.build_dep_metadata
    distributors,  \* what RepoDistributorManager.find_by_repo_list returned
    handles,       \* heap of gdbm objects created by gdbm.open
    dbs,           \* find_*: repo_id -> handle (the 'db' of the entry)
    pool,          \* history: dbs as get_repo_data returned it
    todo,          \* find_*: keys dbs.iteritems() has not yielded yet
    visited,       \* find_*: keys in the order dbs.iteritems() yielded them
    ret,           \* find_*: the running result
    unit,          \* view: the Unit the resolver returned
    result         \* how view ended

vars == <<pc, consumer_id, repo_id, module_name, version, repo_ids, bindings,
          bind_calls, built, distributors, handles, dbs, pool, todo, visited,
          ret, unit, result>>

\* ------------------------------------------------- external collaborators
\* A distributor document together with the database file its configuration
\* points to: canOpen says whether gdbm.open(db_path, 'r') succeeds, db is
\* the file's content (module name -> published versions).
DistributorSet(rids) ==
    {d \in [repo_id : rids, canOpen : BOOLEAN,
            db : [ModuleNames -> SUBSET Versions]] :
        ~d.canOpen => \A m \in ModuleNames : d.db[m] = {}}

\* RepoDistributorManager.find_by_repo_list(repo_ids): every distributor of
\* the given repositories; a repository may have none, one or several.
find_by_repo_list(rids) == SeqsUpTo(DistributorSet(rids), MaxDist)

\* BindManager().find_by_consumer(consumer_id): the consumer's bindings, here
\* with at most one binding per repository
find_by_consumer ==
    {B \in SUBSET [repo_id : Repos, distributor_id : DistributorIds] :
        \A x, y \in B : x.repo_id = y.repo_id => x = y}

\* get_bound_repos: the repo ids of the bindings of this distributor type
get_bound_repos(found) ==
    {b.repo_id : b \in {x \in found : x.distributor_id = DISTRIBUTOR_TYPE_ID}}

\* ------------------------------------------------------------ handles
NewHandle(q, i) ==
    [owner |-> q, dist |-> i, open |-> TRUE, closes |-> 0,
     closed_by |-> "", late_reads |-> 0]

\* db.close(), called once for every key of d that maps to the handle
CloseValues(hs, d, who) ==
    [h \in DOMAIN hs |->
        LET n == Cardinality({k \in DOMAIN d : d[k] = h}) IN
        IF n = 0 THEN hs[h]
        ELSE [hs[h] EXCEPT !.open = FALSE, !.closes = @ + n, !.closed_by = who]]

\* a read through handle h; on a closed gdbm object the read fails
Read(hs, h) ==
    IF hs[h].open THEN hs ELSE [hs EXCEPT ![h].late_reads = @ + 1]

Content(q, h) == distributors[q][handles[h].dist].db[module_name[q]]

\* ------------------------------------------------------- get_repo_data
\* the first gdbm.error ends the loop: the batch is cut short
RECURSIVE get_repo_data_loop_abort(_, _, _, _, _)
get_repo_data_loop_abort(q, ds, i, hs, m) ==
    IF i > Len(ds) \/ ~ds[i].canOpen THEN [ret |-> m, handles |-> hs]
    ELSE LET h == Len(hs) + 1
             rid == ds[i].repo_id
         IN  get_repo_data_loop_abort(q, ds, i + 1,
                 Append(hs, NewHandle(q, i)),
                 [r \in DOMAIN m \cup {rid} |-> IF r = rid THEN h ELSE m[r]])

\* lines 87-98: the loop over the distributors, from the i-th on
RECURSIVE get_repo_data_loop(_, _, _, _, _)
get_repo_data_loop(q, ds, i, hs, m) ==
    IF i > Len(ds) THEN [ret |-> m, handles |-> hs]
    ELSE IF ds[i].canOpen
         THEN LET h == Len(hs) + 1
                  rid == ds[i].repo_id
              IN  get_repo_data_loop(q, ds, i + 1, Append(hs, NewHandle(q, i)),
                      [r \in DOMAIN m \cup {rid} |-> IF r = rid THEN h ELSE m[r]])
         ELSE get_repo_data_loop(q, ds, i + 1, hs, m)   \* gdbm.error: logged

get_repo_data(q, ds, hs) == get_repo_data_loop(q, ds, 1, hs, EmptyMap)

\* ---------------------------------------------------------------- Unit
\* Unit.units_from_json(module_name, db, repo_id, host, protocol): one Unit
\* per release of the module stored in the database
units_from_json(name, h, rid, content) ==
    {[repo_id |-> rid, version |-> v, db |-> h] : v \in content}

\* Unit ordering (max(units), repo_max > ret): by version
UnitGT(a, b) == a.version > b.version
max(units) == CHOOSE u \in units : \A w \in units : ~UnitGT(w, u)

\* ------------------------------------------------------------- resolvers
\* a match by ordering instead of equality
find_version_match_ge(r, units, v) ==
    IF \E u \in units : u.version >= v
    THEN CHOOSE u \in units : u.version >= v
    ELSE r

\* a match never replaces a record found in an earlier store
find_version_match_keep(r, units, v) ==
    IF ~Truthy(r) /\ \E u \in units : u.version = v
    THEN CHOOSE u \in units : u.version = v
    ELSE r

\* find_version, lines 145-148: the inner loop over one store's units
find_version_match(r, units, v) ==
    IF \E u \in units : u.version = v
    THEN CHOOSE u \in units : u.version = v
    ELSE r

\* the store's maximum replaces the running result without a comparison
find_newest_fold_uncompared(r, units) ==
    IF units # {} THEN max(units) ELSE r

\* the comparison is >= : an equal later record replaces the earlier one
find_newest_fold_ge(r, units) ==
    IF units # {}
    THEN LET repo_max == max(units) IN
         IF r = None \/ ~UnitGT(r, repo_max) THEN repo_max ELSE r
    ELSE r

\* find_newest, lines 178-181: fold one store into the running maximum
find_newest_fold(r, units) ==
    IF units # {}
    THEN LET repo_max == max(units) IN
         IF r = None \/ UnitGT(repo_max, r) THEN repo_max ELSE r
    ELSE r

\* the winner's entry is not dropped
Remaining_keeps_winner(d, r) == d

\* lines 152-153, 184-185: "if ret: del dbs[ret.repo_id]"
Remaining(d, r) ==
    IF Truthy(r) THEN [k \in DOMAIN d \ {r.repo_id} |-> d[k]] ELSE d

\* the close loop sits under "if ret:"
find_version_finally_only_if_found(d, r, hs) ==
    [dbs |-> Remaining(d, r),
     handles |-> IF Truthy(r)
                 THEN CloseValues(hs, Remaining(d, r), "find_version")
                 ELSE hs]

\* the close loop runs before the winner's entry is dropped
find_version_finally_close_first(d, r, hs) ==
    [dbs |-> Remaining(d, r),
     handles |-> CloseValues(hs, d, "find_version")]

\* lines 150-155: drop the winner's entry, close what remains
find_version_finally(d, r, hs) ==
    [dbs |-> Remaining(d, r),
     handles |-> CloseValues(hs, Remaining(d, r), "find_version")]

\* the close loop is missing
find_newest_finally_no_close(d, r, hs) ==
    [dbs |-> Remaining(d, r), handles |-> hs]

\* the close loop runs over every entry, the winner's included
find_newest_finally_close_all(d, r, hs) ==
    [dbs |-> Remaining(d, r),
     handles |-> CloseValues(hs, d, "find_newest")]

\* lines 182-187: drop the winner's entry, close what remains
find_newest_finally(d, r, hs) ==
    [dbs |-> Remaining(d, r),
     handles |-> CloseValues(hs, Remaining(d, r), "find_newest")]

\* ---------------------------------------------------------------- Init
\* the state before the queries of the set active call view
Start(active) ==
    /\ pc = [q \in Queries |-> IF q \in active THEN "idle" ELSE "off"]
    /\ consumer_id = [q \in Queries |-> FORGE_NULL_AUTH_VALUE]
    /\ repo_id = [q \in Queries |-> FORGE_NULL_AUTH_VALUE]
    /\ module_name = [q \in Queries |-> "author/title"]
    /\ version = [q \in Queries |-> NoVersion]
    /\ repo_ids = [q \in Queries |-> {}]
    /\ bindings = [q \in Queries |-> {}]
    /\ bind_calls = [q \in Queries |-> 0]
    /\ built = [q \in Queries |-> 0]
    /\ distributors = [q \in Queries |-> <<>>]
    /\ handles = <<>>
    /\ dbs = [q \in Queries |-> EmptyMap]
    /\ pool = [q \in Queries |-> EmptyMap]
    /\ todo = [q \in Queries |-> {}]
    /\ visited = [q \in Queries |-> <<>>]
    /\ ret = [q \in Queries |-> None]
    /\ unit = [q \in Queries |-> None]
    /\ result = [q \in Queries |-> ""]

Init == Start({1})

\* get_repo_data has returned for query q
Opened(q) ==
    \/ pc[q] \in {"find_version_scan", "find_version_raised",
                  "find_newest_scan", "find_newest_raised", "returned"}
    \/ pc[q] = "done" /\ result[q] # "Unauthorized"

\* ------------------------------------------------------- what view is given
\* Two calls are interleaved when no query is "off". They are calls over the
\* same repository's store: the scope of each is that repository or empty,
\* and the distributor collection does not change between them, so the
\* second call with the same scope is given the distributors and database
\* files of the first.
Interleaved == \A q \in Queries : pc[q] # "off"
SharedRepos == {1}

\* the repo_id arguments of a call
RepoChoices ==
    IF Interleaved THEN {FORGE_NULL_AUTH_VALUE} \cup SharedRepos
    ELSE RepoIdArgs

\* what find_by_consumer returns to a call
BindingChoices ==
    IF Interleaved
    THEN {B \in find_by_consumer : \A b \in B : b.repo_id \in SharedRepos}
    ELSE find_by_consumer

\* what find_by_repo_list returns to query q
DistributorChoices(q) ==
    LET before == {p \in Queries \ {q} :
                      Opened(p) /\ repo_ids[p] = repo_ids[q]}
    IN  IF Interleaved /\ before # {}
        THEN {distributors[p] : p \in before}
        ELSE find_by_repo_list(repo_ids[q])

\* ---------------------------------------------------------------- view

\* the version argument is not looked at
Resolver_always_newest(v) == "find_newest"

\* lines 53-56: "if version:"
Resolver(v) == IF v # NoVersion THEN "find_version" ELSE "find_newest"

\* the consumer test of line 47 is missing: the bindings are always asked
view_scope_no_consumer_test(c, r) ==
    IF r = FORGE_NULL_AUTH_VALUE THEN "bound" ELSE "explicit"

\* the consumer is looked at first: a consumer's bindings shadow the
\* explicit repository
view_scope_consumer_first(c, r) ==
    IF c # FORGE_NULL_AUTH_VALUE THEN "bound"
    ELSE IF r # FORGE_NULL_AUTH_VALUE THEN "explicit" ELSE "unauthorized"

\* lines 46-52: where view takes the repositories from
view_scope(c, r) ==
    IF r = FORGE_NULL_AUTH_VALUE
    THEN IF c = FORGE_NULL_AUTH_VALUE THEN "unauthorized" ELSE "bound"
    ELSE "explicit"

\* lines 46-49: neither a repository nor a consumer
view_unauthorized(q) ==
    /\ pc[q] = "idle"
    /\ \E c \in ConsumerIds, r \in RepoChoices, name \in ModuleNames,
          v \in VersionArgs :
        /\ view_scope(c, r) = "unauthorized"
        /\ consumer_id' = [consumer_id EXCEPT ![q] = c]
        /\ repo_id' = [repo_id EXCEPT ![q] = r]
        /\ module_name' = [module_name EXCEPT ![q] = name]
        /\ version' = [version EXCEPT ![q] = v]
    /\ result' = [result EXCEPT ![q] = "Unauthorized"]
    /\ pc' = [pc EXCEPT ![q] = "done"]
    /\ UNCHANGED <<bindings, bind_calls, built, repo_ids, distributors,
                   handles, dbs, pool, todo, visited, ret, unit>>

\* lines 46-50, 53-56: the repositories bound to the consumer
view_bound_repos(q) ==
    /\ pc[q] = "idle"
    /\ \E c \in ConsumerIds, r \in RepoChoices, name \in ModuleNames,
          v \in VersionArgs, found \in BindingChoices :
        /\ view_scope(c, r) = "bound"
        /\ consumer_id' = [consumer_id EXCEPT ![q] = c]
        /\ repo_id' = [repo_id EXCEPT ![q] = r]
        /\ module_name' = [module_name EXCEPT ![q] = name]
        /\ version' = [version EXCEPT ![q] = v]
        /\ bindings' = [bindings EXCEPT ![q] = found]
        /\ bind_calls' = [bind_calls EXCEPT ![q] = @ + 1]
        /\ repo_ids' = [repo_ids EXCEPT ![q] = get_bound_repos(found)]
        /\ pc' = [pc EXCEPT ![q] = Resolver(v)]
    /\ UNCHANGED <<built, distributors, handles, dbs, pool, todo, visited, ret,
                   unit, result>>

\* lines 46, 51-56: an explicit repository
view_explicit_repo(q) ==
    /\ pc[q] = "idle"
    /\ \E c \in ConsumerIds, r \in RepoChoices, name \in ModuleNames,
          v \in VersionArgs :
        /\ view_scope(c, r) = "explicit"
        /\ consumer_id' = [consumer_id EXCEPT ![q] = c]
        /\ repo_id' = [repo_id EXCEPT ![q] = r]
        /\ module_name' = [module_name EXCEPT ![q] = name]
        /\ version' = [version EXCEPT ![q] = v]
        /\ repo_ids' = [repo_ids EXCEPT ![q] = {r}]
        /\ pc' = [pc EXCEPT ![q] = Resolver(v)]
    /\ UNCHANGED <<bindings, bind_calls, built, distributors, handles, dbs,
                   pool, todo, visited, ret, unit, result>>

\* ------------------------------------------------------- find_version
\* lines 139-141
find_version_open(q) ==
    /\ pc[q] = "find_version"
    /\ \E ds \in DistributorChoices(q) :
        LET g == get_repo_data(q, ds, handles) IN
        /\ distributors' = [distributors EXCEPT ![q] = ds]
        /\ handles' = g.handles
        /\ dbs' = [dbs EXCEPT ![q] = g.ret]
        /\ pool' = [pool EXCEPT ![q] = g.ret]
        /\ todo' = [todo EXCEPT ![q] = DOMAIN g.ret]
    /\ visited' = [visited EXCEPT ![q] = <<>>]
    /\ ret' = [ret EXCEPT ![q] = None]
    /\ pc' = [pc EXCEPT ![q] = "find_version_scan"]
    /\ UNCHANGED <<bindings, bind_calls, built, consumer_id, repo_id,
                   module_name, version, repo_ids, unit, result>>

\* lines 143-148: one iteration of the loop over dbs.iteritems()
find_version_scan(q) ==
    /\ pc[q] = "find_version_scan"
    /\ \E k \in todo[q] :
        LET h == dbs[q][k] IN
        /\ handles[h].open
        /\ ret' = [ret EXCEPT ![q] =
               find_version_match(ret[q],
                   units_from_json(module_name[q], h, k, Content(q, h)),
                   version[q])]
        /\ todo' = [todo EXCEPT ![q] = @ \ {k}]
        /\ visited' = [visited EXCEPT ![q] = Append(@, k)]
    /\ UNCHANGED <<bindings, bind_calls, built, pc, consumer_id, repo_id,
                   module_name, version, repo_ids, distributors, handles, dbs,
                   pool, unit, result>>

\* line 144: Unit.units_from_json raises
find_version_raise(q) ==
    /\ pc[q] = "find_version_scan"
    /\ \E k \in todo[q] :
        /\ handles' = Read(handles, dbs[q][k])
        /\ todo' = [todo EXCEPT ![q] = @ \ {k}]
        /\ visited' = [visited EXCEPT ![q] = Append(@, k)]
    /\ pc' = [pc EXCEPT ![q] = "find_version_raised"]
    /\ UNCHANGED <<bindings, bind_calls, built, consumer_id, repo_id,
                   module_name, version, repo_ids, distributors, dbs, pool,
                   ret, unit, result>>

\* lines 150-157: the loop ended; finally, then return ret
find_version_return(q) ==
    /\ pc[q] = "find_version_scan"
    /\ todo[q] = {}
    /\ LET f == find_version_finally(dbs[q], ret[q], handles) IN
        /\ dbs' = [dbs EXCEPT ![q] = f.dbs]
        /\ handles' = f.handles
    /\ unit' = [unit EXCEPT ![q] = ret[q]]
    /\ pc' = [pc EXCEPT ![q] = "returned"]
    /\ UNCHANGED <<bindings, bind_calls, built, consumer_id, repo_id,
                   module_name, version, repo_ids, distributors, pool, todo,
                   visited, ret, result>>

\* lines 150-155: finally with the exception pending; it leaves view too
find_version_unwind(q) ==
    /\ pc[q] = "find_version_raised"
    /\ LET f == find_version_finally(dbs[q], ret[q], handles) IN
        /\ dbs' = [dbs EXCEPT ![q] = f.dbs]
        /\ handles' = f.handles
    /\ result' = [result EXCEPT ![q] = "ListError"]
    /\ pc' = [pc EXCEPT ![q] = "done"]
    /\ UNCHANGED <<bindings, bind_calls, built, consumer_id, repo_id,
                   module_name, version, repo_ids, distributors, pool, todo,
                   visited, ret, unit>>

\* -------------------------------------------------------- find_newest
\* lines 172-174
find_newest_open(q) ==
    /\ pc[q] = "find_newest"
    /\ \E ds \in DistributorChoices(q) :
        LET g == get_repo_data(q, ds, handles) IN
        /\ distributors' = [distributors EXCEPT ![q] = ds]
        /\ handles' = g.handles
        /\ dbs' = [dbs EXCEPT ![q] = g.ret]
        /\ pool' = [pool EXCEPT ![q] = g.ret]
        /\ todo' = [todo EXCEPT ![q] = DOMAIN g.ret]
    /\ visited' = [visited EXCEPT ![q] = <<>>]
    /\ ret' = [ret EXCEPT ![q] = None]
    /\ pc' = [pc EXCEPT ![q] = "find_newest_scan"]
    /\ UNCHANGED <<bindings, bind_calls, built, consumer_id, repo_id,
                   module_name, version, repo_ids, unit, result>>

\* lines 176-181: one iteration of the loop over dbs.iteritems()
find_newest_scan(q) ==
    /\ pc[q] = "find_newest_scan"
    /\ \E k \in todo[q] :
        LET h == dbs[q][k] IN
        /\ handles[h].open
        /\ ret' = [ret EXCEPT ![q] =
               find_newest_fold(ret[q],
                   units_from_json(module_name[q], h, k, Content(q, h)))]
        /\ todo' = [todo EXCEPT ![q] = @ \ {k}]
        /\ visited' = [visited EXCEPT ![q] = Append(@, k)]
    /\ UNCHANGED <<bindings, bind_calls, built, pc, consumer_id, repo_id,
                   module_name, version, repo_ids, distributors, handles, dbs,
                   pool, unit, result>>

\* line 177: Unit.units_from_json raises
find_newest_raise(q) ==
    /\ pc[q] = "find_newest_scan"
    /\ \E k \in todo[q] :
        /\ handles' = Read(handles, dbs[q][k])
        /\ todo' = [todo EXCEPT ![q] = @ \ {k}]
        /\ visited' = [visited EXCEPT ![q] = Append(@, k)]
    /\ pc' = [pc EXCEPT ![q] = "find_newest_raised"]
    /\ UNCHANGED <<bindings, bind_calls, built, consumer_id, repo_id,
                   module_name, version, repo_ids, distributors, dbs, pool,
                   ret, unit, result>>

\* lines 182-188: the loop ended; finally, then return ret
find_newest_return(q) ==
    /\ pc[q] = "find_newest_scan"
    /\ todo[q] = {}
    /\ LET f == find_newest_finally(dbs[q], ret[q], handles) IN
        /\ dbs' = [dbs EXCEPT ![q] = f.dbs]
        /\ handles' = f.handles
    /\ unit' = [unit EXCEPT ![q] = ret[q]]
    /\ pc' = [pc EXCEPT ![q] = "returned"]
    /\ UNCHANGED <<bindings, bind_calls, built, consumer_id, repo_id,
                   module_name, version, repo_ids, distributors, pool, todo,
                   visited, ret, result>>

\* lines 182-187: finally with the exception pending; it leaves view too
find_newest_unwind(q) ==
    /\ pc[q] = "find_newest_raised"
    /\ LET f == find_newest_finally(dbs[q], ret[q], handles) IN
        /\ dbs' = [dbs EXCEPT ![q] = f.dbs]
        /\ handles' = f.handles
    /\ result' = [result EXCEPT ![q] = "ListError"]
    /\ pc' = [pc EXCEPT ![q] = "done"]
    /\ UNCHANGED <<bindings, bind_calls, built, consumer_id, repo_id,
                   module_name, version, repo_ids, distributors, pool, todo,
                   visited, ret, unit>>

\* ------------------------------------------------------ view, the rest

\* an empty result is reported as an authorization failure
view_check_unauthorized(u) == IF ~Truthy(u) THEN "Unauthorized" ELSE "build"

\* lines 57-59: what view does with what the resolver returned
view_check(u) == IF ~Truthy(u) THEN "NotFound" ELSE "build"

\* lines 57-58
view_not_found(q) ==
    /\ pc[q] = "returned"
    /\ view_check(unit[q]) # "build"
    /\ result' = [result EXCEPT ![q] = view_check(unit[q])]
    /\ pc' = [pc EXCEPT ![q] = "done"]
    /\ UNCHANGED <<bindings, bind_calls, built, consumer_id, repo_id,
                   module_name, version, repo_ids, distributors, handles, dbs,
                   pool, todo, visited, ret, unit>>

\* unit.db.close() of line 62
view_close(hs, u) == CloseValues(hs, [k \in {u.repo_id} |-> u.db], "view")

\* lines 59-63: build_dep_metadata returns
view_build(q) ==
    /\ pc[q] = "returned"
    /\ view_check(unit[q]) = "build"
    /\ handles[unit[q].db].open
    /\ built' = [built EXCEPT ![q] = @ + 1]
    /\ handles' = view_close(handles, unit[q])
    /\ result' = [result EXCEPT ![q] = "Data"]
    /\ pc' = [pc EXCEPT ![q] = "done"]
    /\ UNCHANGED <<bindings, bind_calls, consumer_id, repo_id, module_name,
                   version, repo_ids, distributors, dbs, pool, todo, visited,
                   ret, unit>>

\* lines 59-62: build_dep_metadata raises
view_build_raise(q) ==
    /\ pc[q] = "returned"
    /\ view_check(unit[q]) = "build"
    /\ built' = [built EXCEPT ![q] = @ + 1]
    /\ handles' = view_close(Read(handles, unit[q].db), unit[q])
    /\ result' = [result EXCEPT ![q] = "MetadataError"]
    /\ pc' = [pc EXCEPT ![q] = "done"]
    /\ UNCHANGED <<bindings, bind_calls, consumer_id, repo_id, module_name,
                   version, repo_ids, distributors, dbs, pool, todo, visited,
                   ret, unit>>

Next ==
    \E q \in Queries :
        \/ view_unauthorized(q)
        \/ view_bound_repos(q)
        \/ view_explicit_repo(q)
        \/ find_version_open(q)
        \/ find_version_scan(q)
        \/ find_version_raise(q)
        \/ find_version_return(q)
        \/ find_version_unwind(q)
        \/ find_newest_open(q)
        \/ find_newest_scan(q)
        \/ find_newest_raise(q)
        \/ find_newest_return(q)
        \/ find_newest_unwind(q)
        \/ view_not_found(q)
        \/ view_build(q)
        \/ view_build_raise(q)

Spec == Init /\ [][Next]_vars

TypeOK ==
    /\ \A q \in Queries :
        /\ DOMAIN dbs[q] \subseteq DOMAIN pool[q]
        /\ DOMAIN pool[q] \subseteq repo_ids[q]
        /\ Len(distributors[q]) <= MaxDist
    /\ Len(handles) <= MaxDist * Cardinality(Queries)

\* ------------------------------------------------------------- claims
\* the handles of the mapping get_repo_data returned to the resolver
PoolHandles(q) == {pool[q][k] : k \in DOMAIN pool[q]}
\* all handles gdbm.open created for the query
OpenedBy(q) == {h \in DOMAIN handles : handles[h].owner = q}
\* the repositories of the pool whose store holds version v of the module
Holding(q, v) == {k \in DOMAIN pool[q] : v \in Content(q, pool[q][k])}
\* the versions of the module held by some store of the pool
PoolVersions(q) == UNION {Content(q, pool[q][k]) : k \in DOMAIN pool[q]}
\* the first / last key of S in the order the scan met the keys
FirstVisited(q, S) ==
    visited[q][CHOOSE i \in DOMAIN visited[q] :
        /\ visited[q][i] \in S
        /\ \A j \in DOMAIN visited[q] : visited[q][j] \in S => i <= j]
LastVisited(q, S) ==
    visited[q][CHOOSE i \in DOMAIN visited[q] :
        /\ visited[q][i] \in S
        /\ \A j \in DOMAIN visited[q] : visited[q][j] \in S => j <= i]
Found(q) == pc[q] = "returned" /\ Truthy(unit[q])

C2_ErrorNoLeak ==
    \A q \in Queries :
        result[q] = "ListError" =>
            \A h \in PoolHandles(q) : ~handles[h].open

C4_ScopedRelease ==
    \A q \in Queries :
        result[q] \in {"Data", "MetadataError"} =>
            /\ ~handles[unit[q].db].open
            /\ \A h \in OpenedBy(q) : ~handles[h].open

\* C5: no handle is closed more than once; view closes only the handle of
\* the record it was given, and a resolver never closes that handle.
C5_CloseAtMostOnce ==
    \A h \in DOMAIN handles :
        LET q == handles[h].owner IN
        /\ handles[h].closes <= 1
        /\ handles[h].open <=> (handles[h].closes = 0)
        /\ handles[h].closed_by = "view" => (Truthy(unit[q]) /\ unit[q].db = h)
        /\ handles[h].closed_by \in {"find_version", "find_newest"} =>
               ~(Truthy(unit[q]) /\ unit[q].db = h)

\* view returned data for a query over two stores: the loser was closed by
\* the resolver and the winner by view, each once
C5_Witness ==
    \E q \in Queries :
        /\ result[q] = "Data"
        /\ Cardinality(PoolHandles(q)) >= 2
        /\ \A h \in PoolHandles(q) : handles[h].closes = 1
        /\ handles[unit[q].db].closed_by = "view"

\* C6: no store is read through a closed handle, and the handle of the
\* record a resolver returns is open at the return.
C6_NoReadAfterClose ==
    /\ \A h \in DOMAIN handles : handles[h].late_reads = 0
    /\ \A q \in Queries : Found(q) => handles[unit[q].db].open

\* view built the metadata of a record that replaced the candidate found
\* in the store scanned before
C6_Witness ==
    \E q \in Queries :
        /\ result[q] = "Data"
        /\ Len(visited[q]) = 2
        /\ unit[q].repo_id = visited[q][2]
        /\ IF version[q] = NoVersion
           THEN Content(q, pool[q][visited[q][1]]) # {}
           ELSE version[q] \in Content(q, pool[q][visited[q][1]])

C10_NewestTieKeepsFirst ==
    \A q \in Queries :
        (Found(q) /\ version[q] = NoVersion) =>
            unit[q].repo_id = FirstVisited(q, Holding(q, unit[q].version))

\* find_newest returned with the maximum held by two repositories
C10_Witness ==
    \E q \in Queries :
        /\ Found(q)
        /\ version[q] = NoVersion
        /\ Cardinality(Holding(q, unit[q].version)) >= 2

\* the distributors whose database could / could not be opened
CanOpen(q) == {i \in DOMAIN distributors[q] : distributors[q][i].canOpen}
CannotOpen(q) == DOMAIN distributors[q] \ CanOpen(q)
\* the stores of the pool that hold a release the query asks for
Matching(q) ==
    IF version[q] # NoVersion THEN Holding(q, version[q])
    ELSE {k \in DOMAIN pool[q] : Content(q, pool[q][k]) # {}}

\* C11: a store that cannot be opened does not end get_repo_data: the
\* mapping it returns has exactly the repositories of which a store was
\* opened, one handle was created per store that could be opened, and the
\* resolver still returns a record when a store of the mapping holds one.
C11_OpenFailureTolerated ==
    \A q \in Queries :
        /\ Opened(q) =>
            /\ DOMAIN pool[q] = {distributors[q][i].repo_id : i \in CanOpen(q)}
            /\ Cardinality(OpenedBy(q)) = Cardinality(CanOpen(q))
        /\ (pc[q] = "returned" /\ Matching(q) # {}) => Truthy(unit[q])

\* repository 2's store could not be opened and the resolver returned the
\* record of repository 1
C11_Witness ==
    \E q \in Queries :
        /\ Found(q)
        /\ unit[q].repo_id = 1
        /\ \E i \in CannotOpen(q) : distributors[q][i].repo_id = 2
        /\ 2 \notin DOMAIN pool[q]

\* view has been called for query q
Called(q) == pc[q] \notin {"idle", "off"}

\* C12: a call of view with consumer_id and repo_id both the absent
\* sentinel ends with Unauthorized, whatever the module name and the version
\* argument; it asks for no bindings, opens no store and reaches no resolver.
C12_BothAbsentUnauthorized ==
    \A q \in Queries :
        (/\ Called(q)
         /\ consumer_id[q] = FORGE_NULL_AUTH_VALUE
         /\ repo_id[q] = FORGE_NULL_AUTH_VALUE)
        => /\ pc[q] = "done"
           /\ result[q] = "Unauthorized"
           /\ bind_calls[q] = 0
           /\ OpenedBy(q) = {}

\* both ids absent and a version supplied: Unauthorized
C12_Witness ==
    \E q \in Queries :
        /\ pc[q] = "done"
        /\ consumer_id[q] = FORGE_NULL_AUTH_VALUE
        /\ repo_id[q] = FORGE_NULL_AUTH_VALUE
        /\ version[q] # NoVersion
        /\ result[q] = "Unauthorized"

\* view was called for a consumer, without a repository, and the consumer
\* is bound to no repository of this distributor type
EmptyConsumerScope(q) ==
    /\ Called(q)
    /\ repo_id[q] = FORGE_NULL_AUTH_VALUE
    /\ consumer_id[q] # FORGE_NULL_AUTH_VALUE
    /\ repo_ids[q] = {}

\* C13 as stated: a consumer whose set of bound repositories is empty gets
\* the authorization failure.
C13_EmptyScopeUnauthorized ==
    \A q \in Queries :
        (EmptyConsumerScope(q) /\ pc[q] = "done") => result[q] = "Unauthorized"

\* C13 as the code has it: a consumer whose set of bound repositories is
\* empty gets NotFound, after a resolver ran over an empty pool; Unauthorized
\* is the outcome of exactly the calls with both ids absent.
C13_EmptyScopeNotFound ==
    \A q \in Queries :
        /\ (EmptyConsumerScope(q) /\ pc[q] = "done")
            => /\ result[q] = "NotFound"
               /\ bind_calls[q] = 1
               /\ pool[q] = EmptyMap
        /\ (pc[q] = "done" /\ result[q] = "Unauthorized")
            => /\ consumer_id[q] = FORGE_NULL_AUTH_VALUE
               /\ repo_id[q] = FORGE_NULL_AUTH_VALUE

\* a consumer bound to a repository through another distributor type only
C13_Witness ==
    \E q \in Queries :
        /\ EmptyConsumerScope(q)
        /\ pc[q] = "done"
        /\ bindings[q] # {}
        /\ result[q] = "NotFound"

\* view ended for query q with a valid scope and without a listing error
Settled(q) ==
    /\ pc[q] = "done"
    /\ result[q] \in {"NotFound", "Data", "MetadataError"}

\* the handles, of all that were opened for the query, whose store holds a
\* release the query asks for
OpenedMatching(q) ==
    {h \in OpenedBy(q) :
        IF version[q] # NoVersion THEN version[q] \in Content(q, h)
        ELSE Content(q, h) # {}}

\* C14: a query with a valid scope whose listings all succeeded ends with
\* NotFound exactly when no store that was opened for it holds a release it
\* asks for (the requested version if one is supplied, any release
\* otherwise); an empty scope and a scope none of whose stores could be
\* opened are such cases. When it ends with NotFound, build_dep_metadata
\* was not called.
C14_NotFoundIffNoMatch ==
    \A q \in Queries :
        /\ Settled(q) => (result[q] = "NotFound" <=> OpenedMatching(q) = {})
        /\ (pc[q] = "done" /\ result[q] = "NotFound") => built[q] = 0
        /\ (Settled(q) /\ (repo_ids[q] = {} \/ CanOpen(q) = {}))
            => result[q] = "NotFound"

\* The same over the stores of the mapping get_repo_data returned, which
\* leaves out a store whose entry a later distributor of the same
\* repository overwrote.
NotFoundIffNoMatchInPool ==
    \A q \in Queries :
        /\ Settled(q) => (result[q] = "NotFound" <=> Matching(q) = {})
        /\ (pc[q] = "returned" /\ Matching(q) = {}) => ~Truthy(unit[q])
        /\ (pc[q] = "done" /\ result[q] = "NotFound") => built[q] = 0
        /\ (Settled(q) /\ (repo_ids[q] = {} \/ CanOpen(q) = {}))
            => result[q] = "NotFound"

\* the handles of the stores find_newest has scanned that are not the
\* handle of the running maximum
Losers(q) ==
    {pool[q][visited[q][i]] : i \in DOMAIN visited[q]}
        \ (IF Truthy(ret[q]) THEN {ret[q].db} ELSE {})

C16_DispatchOnVersion ==
    \A q \in Queries :
        /\ pc[q] \in {"find_version", "find_version_scan", "find_version_raised"}
            => version[q] # NoVersion
        /\ pc[q] \in {"find_newest", "find_newest_scan", "find_newest_raised"}
            => version[q] = NoVersion
        /\ \A h \in OpenedBy(q) :
            /\ handles[h].closed_by = "find_version" => version[q] # NoVersion
            /\ handles[h].closed_by = "find_newest" => version[q] = NoVersion
        /\ (version[q] # NoVersion /\ Truthy(ret[q]))
            => ret[q].version = version[q]
        /\ (version[q] # NoVersion /\ Truthy(unit[q]))
            => unit[q].version = version[q]

\* metadata returned for the requested version while a store of the pool
\* holds a newer release
C16_Witness ==
    \E q \in Queries :
        /\ pc[q] = "done"
        /\ result[q] = "Data"
        /\ version[q] # NoVersion
        /\ unit[q].version = version[q]
        /\ \E k \in DOMAIN pool[q] :
            \E w \in Content(q, pool[q][k]) : w > version[q]

\* the repositories the consumer is bound to through this distributor type
BoundRepos(q) ==
    {b.repo_id : b \in {x \in bindings[q] :
                            x.distributor_id = DISTRIBUTOR_TYPE_ID}}

\* C17: the record view holds comes from a repository of the scope and
\* every store opened is the store of a repository of the scope; with an
\* explicit repo_id the scope is that repository alone and the bindings are
\* not asked for; with the sentinel repo_id the bindings are asked for once
\* and the scope holds only repositories bound to the consumer.
C17_ScopeConfinement ==
    \A q \in Queries :
        /\ Truthy(unit[q]) => unit[q].repo_id \in repo_ids[q]
        /\ \A h \in OpenedBy(q) :
            distributors[q][handles[h].dist].repo_id \in repo_ids[q]
        /\ (Called(q) /\ repo_id[q] # FORGE_NULL_AUTH_VALUE)
            => /\ repo_ids[q] = {repo_id[q]}
               /\ bind_calls[q] = 0
        /\ (Called(q) /\ repo_id[q] = FORGE_NULL_AUTH_VALUE
                      /\ consumer_id[q] # FORGE_NULL_AUTH_VALUE)
            => /\ bind_calls[q] = 1
               /\ repo_ids[q] \subseteq BoundRepos(q)

\* an explicit repository and a consumer both given: the record comes from
\* the explicit repository and the bindings were not asked for
C17_Witness ==
    \E q \in Queries :
        /\ Found(q)
        /\ repo_id[q] = 2
        /\ consumer_id[q] # FORGE_NULL_AUTH_VALUE
        /\ unit[q].repo_id = 2
        /\ bind_calls[q] = 0

\* C18: when get_repo_data has returned, every handle it opened is a value
\* of the mapping it returned, also when several distributors have the same
\* repo_id: as many entries as handles opened, so the resolver's cleanup
\* reaches each.
C18_EveryHandleTracked ==
    \A q \in Queries :
        Opened(q) =>
            /\ OpenedBy(q) \subseteq PoolHandles(q)
            /\ Cardinality(OpenedBy(q)) = Cardinality(DOMAIN pool[q])

\* ------------------------------------------ two interleaved queries
\* Two view calls interleaved over the same repository's store
InitConc == Start(Queries)
SpecConc == InitConc /\ [][Next]_vars

\* each query has its own handles: what one query uses was opened for it
\* and no other, every close is the owner's single close, no read meets a
\* closed handle, and while a query traverses its pool every handle of the
\* pool is open whatever the other query has done
QueriesIndependent ==
    /\ \A q \in Queries :
        /\ PoolHandles(q) \subseteq OpenedBy(q)
        /\ Truthy(ret[q]) => ret[q].db \in OpenedBy(q)
        /\ Truthy(unit[q]) => unit[q].db \in OpenedBy(q)
        /\ pc[q] \in {"find_version_scan", "find_version_raised",
                      "find_newest_scan", "find_newest_raised"}
            => \A h \in PoolHandles(q) : handles[h].open
        /\ (pc[q] = "returned" /\ Truthy(unit[q])) => handles[unit[q].db].open
    /\ \A p, q \in Queries : p # q => OpenedBy(p) \cap OpenedBy(q) = {}
    /\ \A h \in DOMAIN handles :
        handles[h].closes <= 1 /\ handles[h].late_reads = 0

\* C19: two interleaved queries over the same repository's store each open
\* their own handles, share none, never close or invalidate a handle of the
\* other, and each ends with every handle opened for it closed.
C19_IndependentQueries ==
    /\ QueriesIndependent
    /\ \A q \in Queries :
        pc[q] = "done" => \A h \in OpenedBy(q) : ~handles[h].open
=============================================================================
